---- MODULE Spec2Model ----
(***************************************************************************)
(* Model of GrafoDisperso (src/cpp/GrafoDisperso.cpp): a directed graph    *)
(* stored in CSR form (row_ptr / col_indices) with an in-degree table, its *)
(* loader (cargarDatos -> construirCSR), limpiar, and the read-only        *)
(* queries and traversals that work on the arrays.                         *)
(*                                                                         *)
(* std::vector<T> is a sequence; C++ index i is TLA+ index i+1.            *)
(***************************************************************************)
EXTENDS Integers, Sequences, FiniteSets, TLC

(* ------------------------------ bounds --------------------------------- *)
\* largest node id that appears in an input file
MaxNodoId == 2
\* lines of a file loaded in the life-cycle specification (Spec)
MaxLineas == 2
\* edges of the file a queried graph is built from (SpecConsulta)
MaxAristas == 3
\* successful loads without a limpiar in between
MaxCargas == 2
\* largest non-negative depth limit passed to BFS / DFS
MaxProf == 2
MaxAristasSub == 2
MaxSub == 2
MaxNodoIdProf == 3
MaxAristasProf == 4

Ids == 0..MaxNodoId
\* ids used as query arguments: every id of the model and one beyond it
IdsConsulta == 0..(MaxNodoId + 1)

(* --------------------------- vector helpers ---------------------------- *)
\* v[i] of a std::vector, 0-based
At(v, i) == v[i + 1]

\* std::vector::resize(n, x): keeps the first min(n, size) elements as they
\* are and appends copies of x only for the positions that are new
Resize(v, n, x) == [i \in 1..n |-> IF i <= Len(v) THEN v[i] ELSE x]

\* insertion of x into an ascending sequence
RECURSIVE Insertar(_, _)
Insertar(s, x) ==
    IF s = <<>> THEN <<x>>
    ELSE IF x <= Head(s) THEN <<x>> \o s
    ELSE <<Head(s)>> \o Insertar(Tail(s), x)

\* std::sort of a sequence of integers (ascending)
RECURSIVE Ordenar(_)
Ordenar(s) == IF s = <<>> THEN <<>> ELSE Insertar(Ordenar(Tail(s)), Head(s))

(* ------------------------------- state --------------------------------- *)
VARIABLES
    numNodos,      \* size_t numNodos
    numAristas,    \* size_t numAristas
    maxNodoId,     \* size_t maxNodoId
    row_ptr,       \* std::vector<size_t> row_ptr
    col_indices,   \* std::vector<size_t> col_indices
    gradoEntrada,  \* std::vector<size_t> gradoEntrada
    caido,         \* the process was ended by an out-of-bounds access
    aristas,       \* history: the edge list of the last successful load
    cargas,        \* history: successful loads since construction / limpiar
    ret            \* history: the last call, its arguments and its result

grafo == <<numNodos, numAristas, maxNodoId, row_ptr, col_indices, gradoEntrada>>
vars == <<numNodos, numAristas, maxNodoId, row_ptr, col_indices, gradoEntrada,
          caido, aristas, cargas, ret>>

(* ------------------------------ the file ------------------------------- *)
\* A line is the sequence of its whitespace-separated tokens.  A token is a
\* non-negative integer, a word that is no integer (PALABRA), or a word that
\* begins with '#' (ALMOHADILLA).
PALABRA == -1
ALMOHADILLA == -2

LineasArista == {<<o, d>> : o \in Ids, d \in Ids}
LineasOtras == {<<>>, <<ALMOHADILLA>>, <<PALABRA, 0>>, <<0>>}

SeqHasta(S, n) == UNION {[1..k -> S] : k \in 0..n}

\* the files of the life-cycle specification; abre = FALSE: cannot be opened
Archivos ==
    {[abre |-> FALSE, lineas |-> <<>>]} \cup
    {[abre |-> TRUE, lineas |-> l] : l \in SeqHasta(LineasArista \cup LineasOtras, MaxLineas)}

\* the files a queried graph is built from: 1..MaxAristas edge lines
ArchivosAristas ==
    {[abre |-> TRUE, lineas |-> l] : l \in SeqHasta(LineasArista, MaxAristas) \ {<<>>}}

\* one iteration of the getline loop: the edge a line contributes (as a
\* one-element sequence), or nothing when the line is ignored
LeerLinea(linea) ==
    IF linea = <<>> \/ linea[1] = ALMOHADILLA THEN <<>>
    ELSE IF Len(linea) >= 2 /\ linea[1] >= 0 /\ linea[2] >= 0
         THEN <<(<<linea[1], linea[2]>>)>>
         ELSE <<>>

\* the whole getline loop: the vector aristas after the last line
RECURSIVE LeerAristas(_)
LeerAristas(lineas) ==
    IF lineas = <<>> THEN <<>>
    ELSE LeerLinea(Head(lineas)) \o LeerAristas(Tail(lineas))

(* ---------------------------- construirCSR ----------------------------- *)
Max(x, y) == IF x >= y THEN x ELSE y

\* variant of CalcMaxNodoId: only the origin of each edge is looked at
RECURSIVE CalcMaxNodoIdSoloOrigen(_, _)
CalcMaxNodoIdSoloOrigen(a, m) ==
    IF a = <<>> THEN m
    ELSE CalcMaxNodoIdSoloOrigen(Tail(a), Max(m, Head(a)[1]))

\* the loop that finds the largest id: maxNodoId starts at 0 and takes the
\* maximum with both endpoints of every edge
RECURSIVE CalcMaxNodoId(_, _)
CalcMaxNodoId(a, m) ==
    IF a = <<>> THEN m
    ELSE CalcMaxNodoId(Tail(a), Max(m, Max(Head(a)[1], Head(a)[2])))

\* row_ptr.resize(numNodos + 1, 0)
RedimRowPtr(rp, n) == Resize(rp, n + 1, 0)

\* gradoEntrada.resize(numNodos, 0)
RedimGradoEntrada(ge, n) == Resize(ge, n, 0)

\* col_indices.resize(numAristas)
RedimColIndices(ci, e) == Resize(ci, e, 0)

\* Paso 1, out-degrees: row_ptr[arista.first + 1]++ for every edge
RECURSIVE ContarSalida(_, _)
ContarSalida(rp, a) ==
    IF a = <<>> THEN rp
    ELSE LET u == Head(a)[1]
         IN  ContarSalida([rp EXCEPT ![u + 2] = @ + 1], Tail(a))

\* variant of ContarEntrada: the origin of the edge is counted, not its
\* destination
RECURSIVE ContarEntradaOrigen(_, _)
ContarEntradaOrigen(ge, a) ==
    IF a = <<>> THEN ge
    ELSE LET v == Head(a)[1]
         IN  ContarEntradaOrigen([ge EXCEPT ![v + 1] = @ + 1], Tail(a))

\* Paso 1, in-degrees: gradoEntrada[arista.second]++ for every edge
RECURSIVE ContarEntrada(_, _)
ContarEntrada(ge, a) ==
    IF a = <<>> THEN ge
    ELSE LET v == Head(a)[2]
         IN  ContarEntrada([ge EXCEPT ![v + 1] = @ + 1], Tail(a))

\* variant of Acumular: the loop stops before the last entry
RECURSIVE AcumularCorto(_, _, _)
AcumularCorto(rp, i, n) ==
    IF i >= n THEN rp
    ELSE AcumularCorto([rp EXCEPT ![i + 1] = @ + At(rp, i - 1)], i + 1, n)

\* Paso 2: for (i = 1; i <= numNodos; i++) row_ptr[i] += row_ptr[i - 1]
RECURSIVE Acumular(_, _, _)
Acumular(rp, i, n) ==
    IF i > n THEN rp
    ELSE Acumular([rp EXCEPT ![i + 1] = @ + At(rp, i - 1)], i + 1, n)

\* variant of LlenarCol: the write cursor of the origin is not advanced
RECURSIVE LlenarColSinAvanzar(_, _, _, _)
LlenarColSinAvanzar(ci, wp, a, fuera) ==
    IF a = <<>> THEN [ci |-> ci, fuera |-> fuera]
    ELSE LET u == Head(a)[1]
             v == Head(a)[2]
             pos == At(wp, u)
         IN  IF pos < Len(ci)
             THEN LlenarColSinAvanzar([ci EXCEPT ![pos + 1] = v], wp, Tail(a), fuera)
             ELSE LlenarColSinAvanzar(ci, wp, Tail(a), TRUE)

\* Paso 3: pos = write_ptr[arista.first]++; col_indices[pos] = arista.second.
\* operator[] is unchecked: a pos at or beyond col_indices.size() writes
\* outside the vector, which leaves its elements as they are (fuera = TRUE).
RECURSIVE LlenarCol(_, _, _, _)
LlenarCol(ci, wp, a, fuera) ==
    IF a = <<>> THEN [ci |-> ci, fuera |-> fuera]
    ELSE LET u == Head(a)[1]
             v == Head(a)[2]
             pos == At(wp, u)
             wp1 == [wp EXCEPT ![u + 1] = @ + 1]
         IN  IF pos < Len(ci)
             THEN LlenarCol([ci EXCEPT ![pos + 1] = v], wp1, Tail(a), fuera)
             ELSE LlenarCol(ci, wp1, Tail(a), TRUE)

\* values a word of memory beyond the end of col_indices may hold
ValBasura == 0..(MaxNodoId + 1)

\* elements ini..fin-1 (0-based, fin <= size) of ci replaced by seg
Reemplazar(ci, ini, seg) ==
    [p \in 1..Len(ci) |->
        IF p > ini /\ p <= ini + Len(seg) THEN seg[p - ini] ELSE ci[p]]

\* variant of OrdenarRango: the slice is left in the order of the file
OrdenarRangoSinOrdenar(ci, ini, fin) == {[ci |-> ci, fuera |-> FALSE]}

\* std::sort(col_indices.begin() + ini, col_indices.begin() + fin) for one
\* node: the set of contents col_indices may have afterwards.
\*   fin <= size        : the slice is sorted in place;
\*   fewer than 2 elems : std::sort touches no element;
\*   otherwise the range runs past the end of the vector: the elements of the
\*   vector inside the range end up holding the smallest values of the range,
\*   which mixes them with whatever the memory past the end holds.
OrdenarRango(ci, ini, fin) ==
    IF fin - ini < 2 THEN {[ci |-> ci, fuera |-> FALSE]}
    ELSE IF fin <= Len(ci)
    THEN {[ci |-> Reemplazar(ci, ini, Ordenar(SubSeq(ci, ini + 1, fin))), fuera |-> FALSE]}
    ELSE IF ini >= Len(ci) THEN {[ci |-> ci, fuera |-> TRUE]}
    ELSE LET k == Len(ci) - ini
             dentro == SubSeq(ci, ini + 1, Len(ci))
             g == IF fin - Len(ci) < k THEN fin - Len(ci) ELSE k
         IN  {[ci |-> Reemplazar(ci, ini, SubSeq(Ordenar(dentro \o b), 1, k)),
               fuera |-> TRUE] : b \in [1..g -> ValBasura]}

\* Paso 4: for (i = 0; i < numNodos; i++) std::sort(slice of node i)
RECURSIVE OrdenarVecinos(_, _, _, _, _)
OrdenarVecinos(ci, rp, i, n, fuera) ==
    IF i >= n THEN {[ci |-> ci, fuera |-> fuera]}
    ELSE UNION {OrdenarVecinos(r.ci, rp, i + 1, n, fuera \/ r.fuera) :
                    r \in OrdenarRango(ci, At(rp, i), At(rp, i + 1))}

\* construirCSR(aristas) run on a graph whose vectors hold rp0, ci0, ge0:
\* the set of states it can leave.  An out-of-bounds access (fuera) either
\* goes unnoticed or ends the process (caido).
construirCSR(rp0, ci0, ge0, a) ==
    LET mx == CalcMaxNodoId(a, 0)
        n == mx + 1
        e == Len(a)
        rp == Acumular(ContarSalida(RedimRowPtr(rp0, n), a), 1, n)
        ge == ContarEntrada(RedimGradoEntrada(ge0, n), a)
        lleno == LlenarCol(RedimColIndices(ci0, e), rp, a, FALSE)
    IN  UNION {
          {[numNodos |-> n, numAristas |-> e, maxNodoId |-> mx, row_ptr |-> rp,
            col_indices |-> r.ci, gradoEntrada |-> ge, caido |-> c] :
              c \in (IF r.fuera THEN BOOLEAN ELSE {FALSE})} :
          r \in OrdenarVecinos(lleno.ci, rp, 0, n, lleno.fuera)}

(* ------------------------- life-cycle operations ----------------------- *)
\* GrafoDisperso::GrafoDisperso()
Init ==
    /\ numNodos = 0
    /\ numAristas = 0
    /\ maxNodoId = 0
    /\ row_ptr = <<>>
    /\ col_indices = <<>>
    /\ gradoEntrada = <<>>
    /\ caido = FALSE
    /\ aristas = <<>>
    /\ cargas = 0
    /\ ret = [op |-> "GrafoDisperso"]

\* variant of cargarDatos: a file that opens but gives no edge leaves the
\* graph cleared
cargarDatosVaciaElGrafo(archivo) ==
    /\ ~caido
    /\ IF ~archivo.abre
       THEN /\ ret' = [op |-> "cargarDatos", abre |-> FALSE, leidas |-> <<>>, val |-> FALSE]
            /\ UNCHANGED <<grafo, caido, aristas, cargas>>
       ELSE LET a == LeerAristas(archivo.lineas)
            IN  IF a = <<>>
                THEN /\ ret' = [op |-> "cargarDatos", abre |-> TRUE, leidas |-> a, val |-> FALSE]
                     /\ numNodos' = 0
                     /\ numAristas' = 0
                     /\ maxNodoId' = 0
                     /\ row_ptr' = <<>>
                     /\ col_indices' = <<>>
                     /\ gradoEntrada' = <<>>
                     /\ aristas' = <<>>
                     /\ cargas' = 0
                     /\ UNCHANGED caido
                ELSE /\ cargas < MaxCargas
                     /\ \E r \in construirCSR(row_ptr, col_indices, gradoEntrada, a) :
                          /\ numNodos' = r.numNodos
                          /\ numAristas' = r.numAristas
                          /\ maxNodoId' = r.maxNodoId
                          /\ row_ptr' = r.row_ptr
                          /\ col_indices' = r.col_indices
                          /\ gradoEntrada' = r.gradoEntrada
                          /\ caido' = r.caido
                     /\ aristas' = a
                     /\ cargas' = cargas + 1
                     /\ ret' = [op |-> "cargarDatos", abre |-> TRUE, leidas |-> a, val |-> TRUE]

\* bool cargarDatos(filename): false when the file cannot be opened or no
\* line gave an edge (the graph is not touched); otherwise construirCSR runs
\* on the vectors as they are and the result is true
cargarDatos(archivo) ==
    /\ ~caido
    /\ IF ~archivo.abre
       THEN /\ ret' = [op |-> "cargarDatos", abre |-> FALSE, leidas |-> <<>>, val |-> FALSE]
            /\ UNCHANGED <<grafo, caido, aristas, cargas>>
       ELSE LET a == LeerAristas(archivo.lineas)
            IN  IF a = <<>>
                THEN /\ ret' = [op |-> "cargarDatos", abre |-> TRUE, leidas |-> a, val |-> FALSE]
                     /\ UNCHANGED <<grafo, caido, aristas, cargas>>
                ELSE /\ cargas < MaxCargas
                     /\ \E r \in construirCSR(row_ptr, col_indices, gradoEntrada, a) :
                          /\ numNodos' = r.numNodos
                          /\ numAristas' = r.numAristas
                          /\ maxNodoId' = r.maxNodoId
                          /\ row_ptr' = r.row_ptr
                          /\ col_indices' = r.col_indices
                          /\ gradoEntrada' = r.gradoEntrada
                          /\ caido' = r.caido
                     /\ aristas' = a
                     /\ cargas' = cargas + 1
                     /\ ret' = [op |-> "cargarDatos", abre |-> TRUE, leidas |-> a, val |-> TRUE]

\* variant of limpiar: the in-degree vector is left as it is
limpiarSinGradoEntrada ==
    /\ ~caido
    /\ numNodos' = 0
    /\ numAristas' = 0
    /\ maxNodoId' = 0
    /\ row_ptr' = <<>>
    /\ col_indices' = <<>>
    /\ aristas' = <<>>
    /\ cargas' = 0
    /\ ret' = [op |-> "limpiar", antes |-> numNodos]
    /\ UNCHANGED <<gradoEntrada, caido>>

\* void limpiar(); antes: the node count the call found
limpiar ==
    /\ ~caido
    /\ numNodos' = 0
    /\ numAristas' = 0
    /\ maxNodoId' = 0
    /\ row_ptr' = <<>>
    /\ col_indices' = <<>>
    /\ gradoEntrada' = <<>>
    /\ aristas' = <<>>
    /\ cargas' = 0
    /\ ret' = [op |-> "limpiar", antes |-> numNodos]
    /\ UNCHANGED caido

Next ==
    \/ \E archivo \in Archivos : cargarDatos(archivo)
    \/ limpiar

Spec == Init /\ [][Next]_vars

(* ------------------------------ queries -------------------------------- *)
\* size_t getGradoSalida(size_t nodo) const
getGradoSalida(nodo) ==
    IF nodo >= numNodos THEN 0
    ELSE At(row_ptr, nodo + 1) - At(row_ptr, nodo)

\* variant of getGradoEntrada without the range check: what lies past the
\* end of gradoEntrada is not a count of edges
getGradoEntradaSinRango(nodo) ==
    IF nodo < Len(gradoEntrada) THEN At(gradoEntrada, nodo) ELSE -1

\* size_t getGradoEntrada(size_t nodo) const
getGradoEntrada(nodo) ==
    IF nodo >= numNodos THEN 0
    ELSE At(gradoEntrada, nodo)

\* std::vector<size_t> getVecinos(size_t nodo) const
getVecinos(nodo) ==
    IF nodo >= numNodos THEN <<>>
    ELSE LET inicio == At(row_ptr, nodo)
             fin == At(row_ptr, nodo + 1)
         IN  [k \in 1..(fin - inicio) |-> At(col_indices, inicio + k - 1)]

\* std::lower_bound over col_indices[first, first + len): halves the range,
\* going right when the middle element is smaller than val
RECURSIVE LowerBound(_, _, _)
LowerBound(first, len, val) ==
    IF len <= 0 THEN first
    ELSE LET half == len \div 2
             mid == first + half
         IN  IF At(col_indices, mid) < val
             THEN LowerBound(mid + 1, len - half - 1, val)
             ELSE LowerBound(first, half, val)

\* std::binary_search(col_indices.begin() + inicio, col_indices.begin() + fin, val)
BinarySearch(inicio, fin, val) ==
    LET p == LowerBound(inicio, fin - inicio, val)
    IN  p # fin /\ ~(val < At(col_indices, p))

\* bool existeArista(size_t origen, size_t destino) const
existeArista(origen, destino) ==
    IF origen >= numNodos \/ destino >= numNodos THEN FALSE
    ELSE BinarySearch(At(row_ptr, origen), At(row_ptr, origen + 1), destino)

(* ------------------------------ traversals ----------------------------- *)
\* std::vector<bool> visitado(numNodos, false)
SinVisitar == [i \in 1..numNodos |-> FALSE]

\* variant of BFSVecinos: a neighbour is pushed with nivel, not nivel + 1
RECURSIVE BFSVecinosMismoNivel(_, _, _, _, _)
BFSVecinosMismoNivel(i, fin, nivel, cola, visitado) ==
    IF i >= fin THEN [cola |-> cola, visitado |-> visitado]
    ELSE LET vecino == At(col_indices, i)
         IN  IF ~At(visitado, vecino)
             THEN BFSVecinosMismoNivel(i + 1, fin, nivel, Append(cola, <<vecino, nivel>>),
                                       [visitado EXCEPT ![vecino + 1] = TRUE])
             ELSE BFSVecinosMismoNivel(i + 1, fin, nivel, cola, visitado)

\* the for loop of BFS over col_indices[i .. fin): every neighbour not yet
\* visited is marked and pushed with nivel + 1
RECURSIVE BFSVecinos(_, _, _, _, _)
BFSVecinos(i, fin, nivel, cola, visitado) ==
    IF i >= fin THEN [cola |-> cola, visitado |-> visitado]
    ELSE LET vecino == At(col_indices, i)
         IN  IF ~At(visitado, vecino)
             THEN BFSVecinos(i + 1, fin, nivel, Append(cola, <<vecino, nivel + 1>>),
                             [visitado EXCEPT ![vecino + 1] = TRUE])
             ELSE BFSVecinos(i + 1, fin, nivel, cola, visitado)

\* variant of BFSBucle: a node at the depth limit is still expanded
RECURSIVE BFSBucleUnoMas(_, _, _, _)
BFSBucleUnoMas(cola, visitado, resultado, profundidadMax) ==
    IF cola = <<>> THEN resultado
    ELSE LET nodoActual == Head(cola)[1]
             nivel == Head(cola)[2]
             res1 == Append(resultado, <<nodoActual, nivel>>)
         IN  IF profundidadMax >= 0 /\ nivel > profundidadMax
             THEN BFSBucleUnoMas(Tail(cola), visitado, res1, profundidadMax)
             ELSE LET x == BFSVecinos(At(row_ptr, nodoActual), At(row_ptr, nodoActual + 1),
                                      nivel, Tail(cola), visitado)
                  IN  BFSBucleUnoMas(x.cola, x.visitado, res1, profundidadMax)

\* the while loop of BFS: pop the front, append it to the result and, unless
\* the depth limit is reached, expand it
RECURSIVE BFSBucle(_, _, _, _)
BFSBucle(cola, visitado, resultado, profundidadMax) ==
    IF cola = <<>> THEN resultado
    ELSE LET nodoActual == Head(cola)[1]
             nivel == Head(cola)[2]
             res1 == Append(resultado, <<nodoActual, nivel>>)
         IN  IF profundidadMax >= 0 /\ nivel >= profundidadMax
             THEN BFSBucle(Tail(cola), visitado, res1, profundidadMax)
             ELSE LET x == BFSVecinos(At(row_ptr, nodoActual), At(row_ptr, nodoActual + 1),
                                      nivel, Tail(cola), visitado)
                  IN  BFSBucle(x.cola, x.visitado, res1, profundidadMax)

\* std::vector<std::pair<size_t, int>> BFS(size_t inicio, int profundidadMax) const
BFS(inicio, profundidadMax) ==
    IF inicio >= numNodos THEN <<>>
    ELSE BFSBucle(<<(<<inicio, 0>>)>>, [SinVisitar EXCEPT ![inicio + 1] = TRUE],
                  <<>>, profundidadMax)

\* variant of DFSVecinos: the neighbours are pushed from the first to the
\* last, so the last one is popped first
RECURSIVE DFSVecinosAscendente(_, _, _, _, _)
DFSVecinosAscendente(i, inicioVecinos, nivel, pila, visitado) ==
    IF ~(i > inicioVecinos) THEN pila
    ELSE LET vecino == At(col_indices, i - 1)
             resto == DFSVecinosAscendente(i - 1, inicioVecinos, nivel, pila, visitado)
         IN  IF ~At(visitado, vecino)
             THEN Append(resto, <<vecino, nivel + 1>>)
             ELSE resto

\* the for loop of DFS, i running from finVecinos down to inicioVecinos + 1:
\* every neighbour col_indices[i - 1] not yet visited is pushed with
\* nivel + 1 (the top of the stack is the last element of pila)
RECURSIVE DFSVecinos(_, _, _, _, _)
DFSVecinos(i, inicioVecinos, nivel, pila, visitado) ==
    IF ~(i > inicioVecinos) THEN pila
    ELSE LET vecino == At(col_indices, i - 1)
         IN  IF ~At(visitado, vecino)
             THEN DFSVecinos(i - 1, inicioVecinos, nivel,
                             Append(pila, <<vecino, nivel + 1>>), visitado)
             ELSE DFSVecinos(i - 1, inicioVecinos, nivel, pila, visitado)

\* the while loop of DFS: pop the top; skip it when already visited,
\* otherwise mark it, append it to the result and, unless the depth limit is
\* reached, push its neighbours
RECURSIVE DFSBucle(_, _, _, _)
DFSBucle(pila, visitado, resultado, profundidadMax) ==
    IF pila = <<>> THEN resultado
    ELSE LET nodoActual == pila[Len(pila)][1]
             nivel == pila[Len(pila)][2]
             pila1 == SubSeq(pila, 1, Len(pila) - 1)
         IN  IF At(visitado, nodoActual)
             THEN DFSBucle(pila1, visitado, resultado, profundidadMax)
             ELSE LET vis1 == [visitado EXCEPT ![nodoActual + 1] = TRUE]
                      res1 == Append(resultado, nodoActual)
                  IN  IF profundidadMax >= 0 /\ nivel >= profundidadMax
                      THEN DFSBucle(pila1, vis1, res1, profundidadMax)
                      ELSE DFSBucle(DFSVecinos(At(row_ptr, nodoActual + 1),
                                               At(row_ptr, nodoActual),
                                               nivel, pila1, vis1),
                                    vis1, res1, profundidadMax)

\* std::vector<size_t> DFS(size_t inicio, int profundidadMax) const
DFS(inicio, profundidadMax) ==
    IF inicio >= numNodos THEN <<>>
    ELSE DFSBucle(<<(<<inicio, 0>>)>>, SinVisitar, <<>>, profundidadMax)

\* the for loop of caminoMasCorto over col_indices[i .. fin), which stops as
\* soon as destino is found: a new neighbour is marked, gets actual as its
\* parent and is pushed unless it is destino
RECURSIVE CaminoVecinos(_, _, _, _, _, _, _, _)
CaminoVecinos(i, fin, actual, destino, cola, visitado, padre, encontrado) ==
    IF ~(i < fin /\ ~encontrado)
    THEN [cola |-> cola, visitado |-> visitado, padre |-> padre, encontrado |-> encontrado]
    ELSE LET vecino == At(col_indices, i)
         IN  IF ~At(visitado, vecino)
             THEN LET vis1 == [visitado EXCEPT ![vecino + 1] = TRUE]
                      pad1 == [padre EXCEPT ![vecino + 1] = actual]
                  IN  IF vecino = destino
                      THEN CaminoVecinos(i + 1, fin, actual, destino, cola, vis1, pad1, TRUE)
                      ELSE CaminoVecinos(i + 1, fin, actual, destino,
                                         Append(cola, vecino), vis1, pad1, encontrado)
             ELSE CaminoVecinos(i + 1, fin, actual, destino, cola, visitado, padre, encontrado)

\* the while (!cola.empty() && !encontrado) loop of caminoMasCorto
RECURSIVE CaminoBucle(_, _, _, _, _)
CaminoBucle(cola, visitado, padre, encontrado, destino) ==
    IF ~(cola # <<>> /\ ~encontrado)
    THEN [padre |-> padre, encontrado |-> encontrado]
    ELSE LET actual == Head(cola)
             x == CaminoVecinos(At(row_ptr, actual), At(row_ptr, actual + 1), actual,
                                destino, Tail(cola), visitado, padre, encontrado)
         IN  CaminoBucle(x.cola, x.visitado, x.padre, x.encontrado, destino)

\* std::reverse
RECURSIVE Invertir(_)
Invertir(s) == IF s = <<>> THEN <<>> ELSE Append(Invertir(Tail(s)), Head(s))

\* the reconstruction loop: while (actual != origen) { camino.push_back(actual);
\* actual = padre[actual]; } camino.push_back(origen)
RECURSIVE Reconstruir(_, _, _, _)
Reconstruir(actual, origen, padre, camino) ==
    IF actual = origen THEN Append(camino, origen)
    ELSE Reconstruir(At(padre, actual), origen, padre, Append(camino, actual))

\* variant of caminoMasCorto: the reconstructed path is not reversed
caminoMasCortoSinInvertir(origen, destino) ==
    IF origen >= numNodos \/ destino >= numNodos THEN <<>>
    ELSE IF origen = destino THEN <<origen>>
    ELSE LET b == CaminoBucle(<<origen>>, [SinVisitar EXCEPT ![origen + 1] = TRUE],
                              [i \in 1..numNodos |-> -1], FALSE, destino)
         IN  IF ~b.encontrado THEN <<>>
             ELSE Reconstruir(destino, origen, b.padre, <<>>)

\* variant of caminoMasCorto: no special case for origen == destino
caminoMasCortoSinCasoIgual(origen, destino) ==
    IF origen >= numNodos \/ destino >= numNodos THEN <<>>
    ELSE LET b == CaminoBucle(<<origen>>, [SinVisitar EXCEPT ![origen + 1] = TRUE],
                              [i \in 1..numNodos |-> -1], FALSE, destino)
         IN  IF ~b.encontrado THEN <<>>
             ELSE Invertir(Reconstruir(destino, origen, b.padre, <<>>))

\* std::vector<size_t> caminoMasCorto(size_t origen, size_t destino) const
caminoMasCorto(origen, destino) ==
    IF origen >= numNodos \/ destino >= numNodos THEN <<>>
    ELSE IF origen = destino THEN <<origen>>
    ELSE LET b == CaminoBucle(<<origen>>, [SinVisitar EXCEPT ![origen + 1] = TRUE],
                              [i \in 1..numNodos |-> -1], FALSE, destino)
         IN  IF ~b.encontrado THEN <<>>
             ELSE Invertir(Reconstruir(destino, origen, b.padre, <<>>))

(* ------------------------------ analytics ------------------------------ *)
\* variant of NodosGrado: nodes without outgoing edges are collected too
RECURSIVE NodosGradoSinFiltro(_, _)
NodosGradoSinFiltro(desde, acc) ==
    IF desde >= numNodos THEN acc
    ELSE NodosGradoSinFiltro(desde + 1, Append(acc, <<desde, getGradoSalida(desde)>>))

\* the loop of getTopKNodos that collects (i, grado) for the nodes i = desde,
\* ..., numNodos - 1 whose out-degree is positive
RECURSIVE NodosGrado(_, _)
NodosGrado(desde, acc) ==
    IF desde >= numNodos THEN acc
    ELSE LET grado == getGradoSalida(desde)
         IN  IF grado > 0
             THEN NodosGrado(desde + 1, Append(acc, <<desde, grado>>))
             ELSE NodosGrado(desde + 1, acc)

\* the comparator of the partial sort: a goes before b
MayorGrado(a, b) == a[2] > b[2]

\* the rearrangements of the sequence s
Permutaciones(s) ==
    LET n == Len(s)
    IN  {[i \in 1..n |-> s[f[i]]] :
            f \in {g \in [1..n -> 1..n] : \A i, j \in 1..n : g[i] = g[j] => i = j}}

\* std::partial_sort(s.begin(), s.begin() + k, s.end(), MayorGrado): the first
\* k elements become the k that go first, in order; which of several equal
\* elements is taken, and their order, is not specified, so every
\* rearrangement that satisfies this is a possible result
PartialSort(s, k) ==
    {p \in Permutaciones(s) :
        /\ \A i, j \in 1..k : i < j => ~MayorGrado(p[j], p[i])
        /\ \A i \in 1..k : \A j \in (k + 1)..Len(p) : ~MayorGrado(p[j], p[i])}

\* std::min(k, nodosGrado.size())
RecortarK(k, n) == IF k < n THEN k ELSE n

\* std::vector<std::pair<size_t, size_t>> getTopKNodos(size_t k) const: the
\* set of results the call may return
getTopKNodos(k) ==
    LET nodosGrado == NodosGrado(0, <<>>)
        kk == RecortarK(k, Len(nodosGrado))
    IN  {SubSeq(p, 1, kk) : p \in PartialSort(nodosGrado, kk)}

\* variant of MayorGradoBucle: a node with the same degree as the best one
\* so far replaces it
RECURSIVE MayorGradoBucleEmpate(_, _, _)
MayorGradoBucleEmpate(i, mejorNodo, mejorGrado) ==
    IF i >= numNodos THEN <<mejorNodo, mejorGrado>>
    ELSE LET grado == getGradoSalida(i)
         IN  IF grado >= mejorGrado
             THEN MayorGradoBucleEmpate(i + 1, i, grado)
             ELSE MayorGradoBucleEmpate(i + 1, mejorNodo, mejorGrado)

\* the scan of getNodoMayorGrado from node i on: a node replaces the best
\* one so far only when its degree is strictly larger
RECURSIVE MayorGradoBucle(_, _, _)
MayorGradoBucle(i, mejorNodo, mejorGrado) ==
    IF i >= numNodos THEN <<mejorNodo, mejorGrado>>
    ELSE LET grado == getGradoSalida(i)
         IN  IF grado > mejorGrado
             THEN MayorGradoBucle(i + 1, i, grado)
             ELSE MayorGradoBucle(i + 1, mejorNodo, mejorGrado)

\* std::pair<size_t, size_t> getNodoMayorGrado() const
getNodoMayorGrado == MayorGradoBucle(0, 0, 0)

\* variant of SubgrafoVecinos: every neighbour is emitted, in the node list
\* or not
RECURSIVE SubgrafoVecinosSinFiltro(_, _, _, _, _)
SubgrafoVecinosSinFiltro(nodo, i, fin, nodosSet, acc) ==
    IF i >= fin THEN acc
    ELSE SubgrafoVecinosSinFiltro(nodo, i + 1, fin, nodosSet,
                                  Append(acc, <<nodo, At(col_indices, i)>>))

\* the inner loop of getAristasSubgrafo over col_indices[i..fin) of nodo
RECURSIVE SubgrafoVecinos(_, _, _, _, _)
SubgrafoVecinos(nodo, i, fin, nodosSet, acc) ==
    IF i >= fin THEN acc
    ELSE LET vecino == At(col_indices, i)
         IN  SubgrafoVecinos(nodo, i + 1, fin, nodosSet,
                             IF vecino \in nodosSet
                             THEN Append(acc, <<nodo, vecino>>)
                             ELSE acc)

\* the outer loop of getAristasSubgrafo over nodos[j..]
RECURSIVE SubgrafoBucle(_, _, _, _)
SubgrafoBucle(nodos, j, nodosSet, acc) ==
    IF j > Len(nodos) THEN acc
    ELSE LET nodo == nodos[j]
         IN  IF nodo >= numNodos
             THEN SubgrafoBucle(nodos, j + 1, nodosSet, acc)
             ELSE SubgrafoBucle(nodos, j + 1, nodosSet,
                      SubgrafoVecinos(nodo, At(row_ptr, nodo), At(row_ptr, nodo + 1),
                                      nodosSet, acc))

\* std::vector<std::pair<size_t, size_t>> getAristasSubgrafo(nodos) const
getAristasSubgrafo(nodos) ==
    SubgrafoBucle(nodos, 1, {nodos[j] : j \in DOMAIN nodos}, <<>>)

(* --------------------------- query actions ------------------------------ *)
LlamarGetGradoSalida(nodo) ==
    /\ ~caido
    /\ ret' = [op |-> "getGradoSalida", nodo |-> nodo, val |-> getGradoSalida(nodo)]
    /\ UNCHANGED <<grafo, caido, aristas, cargas>>

LlamarGetGradoEntrada(nodo) ==
    /\ ~caido
    /\ ret' = [op |-> "getGradoEntrada", nodo |-> nodo, val |-> getGradoEntrada(nodo)]
    /\ UNCHANGED <<grafo, caido, aristas, cargas>>

LlamarGetVecinos(nodo) ==
    /\ ~caido
    /\ ret' = [op |-> "getVecinos", nodo |-> nodo, val |-> getVecinos(nodo)]
    /\ UNCHANGED <<grafo, caido, aristas, cargas>>

LlamarExisteArista(origen, destino) ==
    /\ ~caido
    /\ ret' = [op |-> "existeArista", origen |-> origen, destino |-> destino,
               val |-> existeArista(origen, destino)]
    /\ UNCHANGED <<grafo, caido, aristas, cargas>>

LlamarBFS(inicio, profundidadMax) ==
    /\ ~caido
    /\ ret' = [op |-> "BFS", inicio |-> inicio, profundidadMax |-> profundidadMax,
               val |-> BFS(inicio, profundidadMax)]
    /\ UNCHANGED <<grafo, caido, aristas, cargas>>

LlamarDFS(inicio, profundidadMax) ==
    /\ ~caido
    /\ ret' = [op |-> "DFS", inicio |-> inicio, profundidadMax |-> profundidadMax,
               val |-> DFS(inicio, profundidadMax)]
    /\ UNCHANGED <<grafo, caido, aristas, cargas>>

LlamarCaminoMasCorto(origen, destino) ==
    /\ ~caido
    /\ ret' = [op |-> "caminoMasCorto", origen |-> origen, destino |-> destino,
               val |-> caminoMasCorto(origen, destino)]
    /\ UNCHANGED <<grafo, caido, aristas, cargas>>

LlamarGetTopKNodos(k) ==
    /\ ~caido
    /\ \E r \in getTopKNodos(k) : ret' = [op |-> "getTopKNodos", k |-> k, val |-> r]
    /\ UNCHANGED <<grafo, caido, aristas, cargas>>

LlamarGetNodoMayorGrado ==
    /\ ~caido
    /\ ret' = [op |-> "getNodoMayorGrado", val |-> getNodoMayorGrado]
    /\ UNCHANGED <<grafo, caido, aristas, cargas>>

LlamarGetAristasSubgrafo(nodos) ==
    /\ ~caido
    /\ ret' = [op |-> "getAristasSubgrafo", nodos |-> nodos,
               val |-> getAristasSubgrafo(nodos)]
    /\ UNCHANGED <<grafo, caido, aristas, cargas>>

\* a graph object right after its first successful cargarDatos: constructed,
\* then loaded from a file of 1..MaxAristas edge lines
InitConsulta ==
    \E archivo \in ArchivosAristas :
        LET a == LeerAristas(archivo.lineas)
        IN  \E r \in construirCSR(<<>>, <<>>, <<>>, a) :
              /\ numNodos = r.numNodos
              /\ numAristas = r.numAristas
              /\ maxNodoId = r.maxNodoId
              /\ row_ptr = r.row_ptr
              /\ col_indices = r.col_indices
              /\ gradoEntrada = r.gradoEntrada
              /\ caido = r.caido
              /\ aristas = a
              /\ cargas = 1
              /\ ret = [op |-> "cargarDatos", abre |-> TRUE, leidas |-> a, val |-> TRUE]

\* A query reads the graph and changes none of its members, so a call made
\* after other calls sees the state the load left: a behaviour of
\* SpecConsulta makes one call on the graph as loaded.
SinLlamar == ret.op = "cargarDatos"

NextConsulta ==
    \/ \E nodo \in IdsConsulta : SinLlamar /\ LlamarGetGradoSalida(nodo)
    \/ \E nodo \in IdsConsulta : SinLlamar /\ LlamarGetGradoEntrada(nodo)
    \/ \E nodo \in IdsConsulta : SinLlamar /\ LlamarGetVecinos(nodo)
    \/ \E origen \in IdsConsulta, destino \in IdsConsulta :
          SinLlamar /\ LlamarExisteArista(origen, destino)
    \/ \E origen \in IdsConsulta, destino \in IdsConsulta :
          SinLlamar /\ LlamarCaminoMasCorto(origen, destino)
    \/ \E k \in 0..(MaxNodoId + 2) : SinLlamar /\ LlamarGetTopKNodos(k)

\* the queries called on a graph built by one load (BFS and DFS: SpecRecorrido)
SpecConsulta == InitConsulta /\ [][NextConsulta]_vars

\* no query has been called yet: the last call is the constructor, a load or
\* limpiar
AntesDeLlamar == ret.op \in {"GrafoDisperso", "cargarDatos", "limpiar"}

\* getNodoMayorGrado called on a graph that is new, built by one load, or
\* cleared after a load
InitAnalisis == Init \/ InitConsulta

NextAnalisis ==
    \/ AntesDeLlamar /\ limpiar
    \/ AntesDeLlamar /\ LlamarGetNodoMayorGrado

SpecAnalisis == InitAnalisis /\ [][NextAnalisis]_vars

\* the files the graphs of the subgraph queries are built from
ArchivosSubgrafo ==
    {[abre |-> TRUE, lineas |-> l] : l \in SeqHasta(LineasArista, MaxAristasSub) \ {<<>>}}

\* the node lists passed to getAristasSubgrafo: any order, repeated ids, ids
\* that are not nodes
ListasNodos == SeqHasta(IdsConsulta, MaxSub)

InitSubgrafo ==
    \E archivo \in ArchivosSubgrafo :
        LET a == LeerAristas(archivo.lineas)
        IN  \E r \in construirCSR(<<>>, <<>>, <<>>, a) :
              /\ numNodos = r.numNodos
              /\ numAristas = r.numAristas
              /\ maxNodoId = r.maxNodoId
              /\ row_ptr = r.row_ptr
              /\ col_indices = r.col_indices
              /\ gradoEntrada = r.gradoEntrada
              /\ caido = r.caido
              /\ aristas = a
              /\ cargas = 1
              /\ ret = [op |-> "cargarDatos", abre |-> TRUE, leidas |-> a, val |-> TRUE]

NextSubgrafo ==
    \E nodos \in ListasNodos : SinLlamar /\ LlamarGetAristasSubgrafo(nodos)

SpecSubgrafo == InitSubgrafo /\ [][NextSubgrafo]_vars

\* the life cycle of one graph object, then one query whose id is not a node
\* of the graph as it stands (for getTopKNodos: k above the node count)
NextFuera ==
    \/ \E archivo \in Archivos : AntesDeLlamar /\ cargarDatos(archivo)
    \/ AntesDeLlamar /\ limpiar
    \/ \E nodo \in IdsConsulta :
          AntesDeLlamar /\ nodo >= numNodos /\ LlamarGetGradoSalida(nodo)
    \/ \E nodo \in IdsConsulta :
          AntesDeLlamar /\ nodo >= numNodos /\ LlamarGetGradoEntrada(nodo)
    \/ \E nodo \in IdsConsulta :
          AntesDeLlamar /\ nodo >= numNodos /\ LlamarGetVecinos(nodo)
    \/ \E origen \in IdsConsulta, destino \in IdsConsulta :
          /\ AntesDeLlamar
          /\ origen >= numNodos \/ destino >= numNodos
          /\ LlamarExisteArista(origen, destino)
    \/ \E inicio \in IdsConsulta, profundidadMax \in (-1)..MaxProf :
          AntesDeLlamar /\ inicio >= numNodos /\ LlamarBFS(inicio, profundidadMax)
    \/ \E inicio \in IdsConsulta, profundidadMax \in (-1)..MaxProf :
          AntesDeLlamar /\ inicio >= numNodos /\ LlamarDFS(inicio, profundidadMax)
    \/ \E k \in 0..(MaxNodoId + 2) :
          AntesDeLlamar /\ k > numNodos /\ LlamarGetTopKNodos(k)

SpecFuera == Init /\ [][NextFuera]_vars

\* the example of the class documentation: 0->1, 0->2, 1->2, 2->0
Ejemplo == <<(<<0, 1>>), <<0, 2>>, <<1, 2>>, <<2, 0>>>>

\* a new graph that has loaded the example
InitEjemplo ==
    \E r \in construirCSR(<<>>, <<>>, <<>>, Ejemplo) :
        /\ numNodos = r.numNodos
        /\ numAristas = r.numAristas
        /\ maxNodoId = r.maxNodoId
        /\ row_ptr = r.row_ptr
        /\ col_indices = r.col_indices
        /\ gradoEntrada = r.gradoEntrada
        /\ caido = r.caido
        /\ aristas = Ejemplo
        /\ cargas = 1
        /\ ret = [op |-> "cargarDatos", abre |-> TRUE, leidas |-> Ejemplo, val |-> TRUE]

\* one query on the example graph
NextEjemplo ==
    \/ \E nodo \in IdsConsulta : SinLlamar /\ LlamarGetGradoSalida(nodo)
    \/ \E nodo \in IdsConsulta : SinLlamar /\ LlamarGetGradoEntrada(nodo)
    \/ \E nodo \in IdsConsulta : SinLlamar /\ LlamarGetVecinos(nodo)
    \/ \E origen \in IdsConsulta, destino \in IdsConsulta :
          SinLlamar /\ LlamarExisteArista(origen, destino)
    \/ \E inicio \in IdsConsulta, profundidadMax \in (-1)..MaxProf :
          SinLlamar /\ LlamarBFS(inicio, profundidadMax)
    \/ \E inicio \in IdsConsulta, profundidadMax \in (-1)..MaxProf :
          SinLlamar /\ LlamarDFS(inicio, profundidadMax)
    \/ \E origen \in IdsConsulta, destino \in IdsConsulta :
          SinLlamar /\ LlamarCaminoMasCorto(origen, destino)
    \/ \E k \in 0..(MaxNodoId + 2) : SinLlamar /\ LlamarGetTopKNodos(k)
    \/ SinLlamar /\ LlamarGetNodoMayorGrado
    \/ \E nodos \in ListasNodos : SinLlamar /\ LlamarGetAristasSubgrafo(nodos)

SpecEjemplo == InitEjemplo /\ [][NextEjemplo]_vars

\* one traversal, breadth-first or depth-first, of a built graph
NextRecorrido ==
    \/ \E inicio \in IdsConsulta, profundidadMax \in (-1)..MaxProf :
          SinLlamar /\ LlamarBFS(inicio, profundidadMax)
    \/ \E inicio \in IdsConsulta, profundidadMax \in (-1)..MaxProf :
          SinLlamar /\ LlamarDFS(inicio, profundidadMax)

SpecRecorrido == InitConsulta /\ [][NextRecorrido]_vars

(* ------------------- the traversals, one loop iteration a step --------- *)
\* The frame of the running call is kept in ret: its arguments, its local
\* variables, pc ("bucle": at the test of the while loop, "reconstruir": at
\* the test of the path loop, "fin": returned) and val, the result vector.
\* encolados lists the nodes BFS has pushed on its queue and empujados counts
\* the entries DFS has pushed on its stack.

\* BFS up to its while loop
EmpezarBFS(inicio, profundidadMax) ==
    /\ ~caido
    /\ ret' = IF inicio >= numNodos
              THEN [op |-> "BFS", inicio |-> inicio, profundidadMax |-> profundidadMax,
                    pc |-> "fin", cola |-> <<>>, visitado |-> <<>>,
                    encolados |-> <<>>, val |-> <<>>]
              ELSE [op |-> "BFS", inicio |-> inicio, profundidadMax |-> profundidadMax,
                    pc |-> "bucle", cola |-> <<(<<inicio, 0>>)>>,
                    visitado |-> [SinVisitar EXCEPT ![inicio + 1] = TRUE],
                    encolados |-> <<inicio>>, val |-> <<>>]
    /\ UNCHANGED <<grafo, caido, aristas, cargas>>

\* the test of BFS's while loop and, when the queue is not empty, one
\* iteration of its body
PasoBFS ==
    /\ ret.op = "BFS" /\ ret.pc = "bucle"
    /\ ret' = IF ret.cola = <<>> THEN [ret EXCEPT !.pc = "fin"]
              ELSE LET nodoActual == Head(ret.cola)[1]
                       nivel == Head(ret.cola)[2]
                       resto == Tail(ret.cola)
                       res1 == Append(ret.val, <<nodoActual, nivel>>)
                   IN  IF ret.profundidadMax >= 0 /\ nivel >= ret.profundidadMax
                       THEN [ret EXCEPT !.cola = resto, !.val = res1]
                       ELSE LET x == BFSVecinos(At(row_ptr, nodoActual),
                                                At(row_ptr, nodoActual + 1),
                                                nivel, resto, ret.visitado)
                            IN  [ret EXCEPT !.cola = x.cola, !.visitado = x.visitado,
                                            !.val = res1,
                                            !.encolados = @ \o
                                                [k \in 1..(Len(x.cola) - Len(resto)) |->
                                                    x.cola[Len(resto) + k][1]]]
    /\ UNCHANGED <<grafo, caido, aristas, cargas>>

\* DFS up to its while loop
EmpezarDFS(inicio, profundidadMax) ==
    /\ ~caido
    /\ ret' = IF inicio >= numNodos
              THEN [op |-> "DFS", inicio |-> inicio, profundidadMax |-> profundidadMax,
                    pc |-> "fin", pila |-> <<>>, visitado |-> <<>>,
                    empujados |-> 0, val |-> <<>>]
              ELSE [op |-> "DFS", inicio |-> inicio, profundidadMax |-> profundidadMax,
                    pc |-> "bucle", pila |-> <<(<<inicio, 0>>)>>,
                    visitado |-> SinVisitar, empujados |-> 1, val |-> <<>>]
    /\ UNCHANGED <<grafo, caido, aristas, cargas>>

\* variant of PasoDFS: a popped node is expanded even when already visited
PasoDFSSinVisitado ==
    /\ ret.op = "DFS" /\ ret.pc = "bucle"
    /\ ret' = IF ret.pila = <<>> THEN [ret EXCEPT !.pc = "fin"]
              ELSE LET nodoActual == ret.pila[Len(ret.pila)][1]
                       nivel == ret.pila[Len(ret.pila)][2]
                       pila1 == SubSeq(ret.pila, 1, Len(ret.pila) - 1)
                       vis1 == [ret.visitado EXCEPT ![nodoActual + 1] = TRUE]
                       res1 == Append(ret.val, nodoActual)
                   IN  IF ret.profundidadMax >= 0 /\ nivel >= ret.profundidadMax
                       THEN [ret EXCEPT !.pila = pila1, !.visitado = vis1, !.val = res1]
                       ELSE LET pila2 == DFSVecinos(At(row_ptr, nodoActual + 1),
                                                    At(row_ptr, nodoActual),
                                                    nivel, pila1, ret.visitado)
                            IN  [ret EXCEPT !.pila = pila2, !.visitado = vis1,
                                            !.val = res1,
                                            !.empujados = @ + Len(pila2) - Len(pila1)]
    /\ UNCHANGED <<grafo, caido, aristas, cargas>>

\* the test of DFS's while loop and, when the stack is not empty, one
\* iteration of its body
PasoDFS ==
    /\ ret.op = "DFS" /\ ret.pc = "bucle"
    /\ ret' = IF ret.pila = <<>> THEN [ret EXCEPT !.pc = "fin"]
              ELSE LET nodoActual == ret.pila[Len(ret.pila)][1]
                       nivel == ret.pila[Len(ret.pila)][2]
                       pila1 == SubSeq(ret.pila, 1, Len(ret.pila) - 1)
                   IN  IF At(ret.visitado, nodoActual)
                       THEN [ret EXCEPT !.pila = pila1]
                       ELSE LET vis1 == [ret.visitado EXCEPT ![nodoActual + 1] = TRUE]
                                res1 == Append(ret.val, nodoActual)
                            IN  IF ret.profundidadMax >= 0 /\ nivel >= ret.profundidadMax
                                THEN [ret EXCEPT !.pila = pila1, !.visitado = vis1,
                                                 !.val = res1]
                                ELSE LET pila2 == DFSVecinos(At(row_ptr, nodoActual + 1),
                                                             At(row_ptr, nodoActual),
                                                             nivel, pila1, vis1)
                                     IN  [ret EXCEPT !.pila = pila2, !.visitado = vis1,
                                                     !.val = res1,
                                                     !.empujados = @ + Len(pila2) - Len(pila1)]
    /\ UNCHANGED <<grafo, caido, aristas, cargas>>

\* caminoMasCorto up to its while loop
EmpezarCamino(origen, destino) ==
    /\ ~caido
    /\ ret' = IF origen >= numNodos \/ destino >= numNodos \/ origen = destino
              THEN [op |-> "caminoMasCorto", origen |-> origen, destino |-> destino,
                    pc |-> "fin", cola |-> <<>>, visitado |-> <<>>, padre |-> <<>>,
                    encontrado |-> FALSE, actual |-> destino,
                    val |-> IF origen >= numNodos \/ destino >= numNodos
                            THEN <<>> ELSE <<origen>>]
              ELSE [op |-> "caminoMasCorto", origen |-> origen, destino |-> destino,
                    pc |-> "bucle", cola |-> <<origen>>,
                    visitado |-> [SinVisitar EXCEPT ![origen + 1] = TRUE],
                    padre |-> [i \in 1..numNodos |-> -1],
                    encontrado |-> FALSE, actual |-> destino, val |-> <<>>]
    /\ UNCHANGED <<grafo, caido, aristas, cargas>>

\* the test of caminoMasCorto's while (!cola.empty() && !encontrado) loop
\* and one iteration of its body; when the loop ends, the return of the
\* empty path or the start of the reconstruction
PasoCamino ==
    /\ ret.op = "caminoMasCorto" /\ ret.pc = "bucle"
    /\ ret' = IF ~(ret.cola # <<>> /\ ~ret.encontrado)
              THEN [ret EXCEPT !.pc = IF ret.encontrado THEN "reconstruir" ELSE "fin"]
              ELSE LET actual == Head(ret.cola)
                       x == CaminoVecinos(At(row_ptr, actual), At(row_ptr, actual + 1),
                                          actual, ret.destino, Tail(ret.cola),
                                          ret.visitado, ret.padre, ret.encontrado)
                   IN  [ret EXCEPT !.cola = x.cola, !.visitado = x.visitado,
                                   !.padre = x.padre, !.encontrado = x.encontrado]
    /\ UNCHANGED <<grafo, caido, aristas, cargas>>

\* the test of the while (actual != origen) loop and one iteration of its
\* body; when the loop ends, the last push_back, std::reverse and the return
PasoReconstruir ==
    /\ ret.op = "caminoMasCorto" /\ ret.pc = "reconstruir"
    /\ ret' = IF ret.actual # ret.origen
              THEN [ret EXCEPT !.val = Append(@, ret.actual),
                               !.actual = At(ret.padre, ret.actual)]
              ELSE [ret EXCEPT !.val = Invertir(Append(@, ret.origen)), !.pc = "fin"]
    /\ UNCHANGED <<grafo, caido, aristas, cargas>>

\* one traversal call on a built graph, run to its return
NextPasos ==
    \/ \E inicio \in IdsConsulta, profundidadMax \in (-1)..MaxProf :
          SinLlamar /\ EmpezarBFS(inicio, profundidadMax)
    \/ PasoBFS
    \/ \E inicio \in IdsConsulta, profundidadMax \in (-1)..MaxProf :
          SinLlamar /\ EmpezarDFS(inicio, profundidadMax)
    \/ PasoDFS
    \/ \E origen \in IdsConsulta, destino \in IdsConsulta :
          SinLlamar /\ EmpezarCamino(origen, destino)
    \/ PasoCamino
    \/ PasoReconstruir

\* a call that has started goes on with its next iteration
SpecPasos == InitSubgrafo /\ [][NextPasos]_vars /\ WF_vars(NextPasos)

(* -------------------------- random sampling ---------------------------- *)
\* the orders in which the elements of the set S can be listed
Enumeraciones(S) ==
    {f \in [1..Cardinality(S) -> S] : \A i, j \in DOMAIN f : f[i] = f[j] => i = j}

\* variant of SigueMuestreo: the loop goes on while size() <= cantidad
SigueMuestreoUnoMas(seleccionados, cantidad) == Cardinality(seleccionados) <= cantidad

\* the test of the rejection loop: seleccionados.size() < cantidad
SigueMuestreo(seleccionados, cantidad) == Cardinality(seleccionados) < cantidad

\* muestreoAleatorio up to its while loop: every id when cantidad >= numNodos
EmpezarMuestreo(cantidad) ==
    /\ ~caido
    /\ ret' = IF cantidad >= numNodos
              THEN [op |-> "muestreoAleatorio", cantidad |-> cantidad, pc |-> "fin",
                    seleccionados |-> {}, val |-> [k \in 1..numNodos |-> k - 1]]
              ELSE [op |-> "muestreoAleatorio", cantidad |-> cantidad, pc |-> "bucle",
                    seleccionados |-> {}, val |-> <<>>]
    /\ UNCHANGED <<grafo, caido, aristas, cargas>>

\* one iteration of the loop: dist(gen) gives x in 0..numNodos-1 and the set
\* takes it (nothing changes when it is already there)
SacarMuestra(x) ==
    /\ ret.op = "muestreoAleatorio" /\ ret.pc = "bucle"
    /\ SigueMuestreo(ret.seleccionados, ret.cantidad)
    /\ x <= numNodos - 1
    /\ ret' = [ret EXCEPT !.seleccionados = @ \cup {x}]
    /\ UNCHANGED <<grafo, caido, aristas, cargas>>

\* the loop ends: the set is copied in the order its iteration gives, sorted
\* and returned
TerminarMuestreo ==
    /\ ret.op = "muestreoAleatorio" /\ ret.pc = "bucle"
    /\ ~SigueMuestreo(ret.seleccionados, ret.cantidad)
    /\ \E muestra \in Enumeraciones(ret.seleccionados) :
          ret' = [ret EXCEPT !.val = Ordenar(muestra), !.pc = "fin"]
    /\ UNCHANGED <<grafo, caido, aristas, cargas>>

\* a new graph or a built one
InitMuestreo == Init \/ InitSubgrafo

NextMuestreo ==
    \/ \E cantidad \in 0..(MaxNodoId + 2) : AntesDeLlamar /\ EmpezarMuestreo(cantidad)
    \/ \E x \in Ids : SacarMuestra(x)
    \/ TerminarMuestreo

\* fair draws: the loop does not draw ids it already has for ever, and a
\* loop whose test fails goes on to the return
SpecMuestreo ==
    /\ InitMuestreo
    /\ [][NextMuestreo]_vars
    /\ WF_vars(\E x \in Ids : SacarMuestra(x))
    /\ WF_vars(TerminarMuestreo)

(* --------------------- cargarDatos, one line a step -------------------- *)
\* lines with more than two tokens, or with a second token that is no
\* integer
LineasLargas == {<<0, 1, 0>>, <<0, 1, PALABRA>>, <<0, PALABRA>>, <<0, ALMOHADILLA>>}

\* the files of the reading specification
ArchivosLectura ==
    {[abre |-> FALSE, lineas |-> <<>>]} \cup
    {[abre |-> TRUE, lineas |-> l] :
        l \in SeqHasta(LineasArista \cup LineasOtras \cup LineasLargas, MaxLineas)}

\* cargarDatos up to its getline loop, on a new graph.  The frame is kept in
\* ret: the lines of the file, the number of lines read so far (leidas), the
\* local vector aristas (vector) and the two counters.
AbrirArchivo(archivo) ==
    /\ ~caido
    /\ ret.op = "GrafoDisperso"
    /\ ret' = IF ~archivo.abre
              THEN [op |-> "cargarDatos", pc |-> "fin", abre |-> FALSE, lineas |-> <<>>,
                    leidas |-> 0, vector |-> <<>>, lineasProcesadas |-> 0,
                    lineasIgnoradas |-> 0, val |-> FALSE]
              ELSE [op |-> "cargarDatos", pc |-> "getline", abre |-> TRUE,
                    lineas |-> archivo.lineas, leidas |-> 0, vector |-> <<>>,
                    lineasProcesadas |-> 0, lineasIgnoradas |-> 0, val |-> FALSE]
    /\ UNCHANGED <<grafo, caido, aristas, cargas>>

\* one iteration of the getline loop
PasoGetline ==
    /\ ret.op = "cargarDatos" /\ ret.pc = "getline"
    /\ ret.leidas < Len(ret.lineas)
    /\ LET arista == LeerLinea(ret.lineas[ret.leidas + 1])
       IN  ret' = IF arista = <<>>
                  THEN [ret EXCEPT !.leidas = @ + 1, !.lineasIgnoradas = @ + 1]
                  ELSE [ret EXCEPT !.leidas = @ + 1, !.vector = @ \o arista,
                                   !.lineasProcesadas = @ + 1]
    /\ UNCHANGED <<grafo, caido, aristas, cargas>>

\* getline fails at the end of the file: false when no edge was read,
\* otherwise construirCSR and true
TerminarCarga ==
    /\ ret.op = "cargarDatos" /\ ret.pc = "getline"
    /\ ret.leidas = Len(ret.lineas)
    /\ IF ret.vector = <<>>
       THEN /\ ret' = [ret EXCEPT !.pc = "fin", !.val = FALSE]
            /\ UNCHANGED <<grafo, caido, aristas, cargas>>
       ELSE \E r \in construirCSR(row_ptr, col_indices, gradoEntrada, ret.vector) :
              /\ numNodos' = r.numNodos
              /\ numAristas' = r.numAristas
              /\ maxNodoId' = r.maxNodoId
              /\ row_ptr' = r.row_ptr
              /\ col_indices' = r.col_indices
              /\ gradoEntrada' = r.gradoEntrada
              /\ caido' = r.caido
              /\ aristas' = ret.vector
              /\ cargas' = cargas + 1
              /\ ret' = [ret EXCEPT !.pc = "fin", !.val = TRUE]

NextLectura ==
    \/ \E archivo \in ArchivosLectura : AbrirArchivo(archivo)
    \/ PasoGetline
    \/ TerminarCarga

SpecLectura == Init /\ [][NextLectura]_vars

(* ----------------------- depth-limited searches ------------------------ *)
\* the files the graphs of the depth-limited searches are built from: edge
\* lines over the ids 0..MaxNodoIdProf
ArchivosProfundidad ==
    {[abre |-> TRUE, lineas |-> l] :
        l \in SeqHasta({<<o, d>> : o \in 0..MaxNodoIdProf, d \in 0..MaxNodoIdProf},
                       MaxAristasProf) \ {<<>>}}

InitProfundidad ==
    \E archivo \in ArchivosProfundidad :
        LET a == LeerAristas(archivo.lineas)
        IN  \E r \in construirCSR(<<>>, <<>>, <<>>, a) :
              /\ numNodos = r.numNodos
              /\ numAristas = r.numAristas
              /\ maxNodoId = r.maxNodoId
              /\ row_ptr = r.row_ptr
              /\ col_indices = r.col_indices
              /\ gradoEntrada = r.gradoEntrada
              /\ caido = r.caido
              /\ aristas = a
              /\ cargas = 1
              /\ ret = [op |-> "cargarDatos", abre |-> TRUE, leidas |-> a, val |-> TRUE]

\* one depth-first search, with or without a depth limit, of a built graph
NextProfundidad ==
    \E inicio \in 0..MaxNodoIdProf, profundidadMax \in (-1)..MaxProf :
        SinLlamar /\ LlamarDFS(inicio, profundidadMax)

SpecProfundidad == InitProfundidad /\ [][NextProfundidad]_vars

(* ======================= properties of the life cycle ================== *)
\* the state a freshly constructed graph has after loading the edge list a
\* (construirCSR on empty vectors never leaves the vectors: one outcome)
Recien(a) == CHOOSE r \in construirCSR(<<>>, <<>>, <<>>, a) : TRUE

\* the graph is populated by a load made on top of a populated graph
Recargado == ~caido /\ numNodos > 0 /\ cargas >= 2

RowPtrBienFormado ==
    /\ Len(row_ptr) = numNodos + 1
    /\ At(row_ptr, 0) = 0
    /\ At(row_ptr, numNodos) = numAristas
    /\ \A i \in 0..(numNodos - 1) : At(row_ptr, i) <= At(row_ptr, i + 1)

\* C1: in every populated state reached by cargarDatos (successful or failed)
\* and limpiar calls, a load on top of a loaded graph included, row_ptr has
\* numNodos + 1 entries, starts at 0, ends at numAristas and never decreases.
C1_RowPtrInvariante == (~caido /\ numNodos > 0) => RowPtrBienFormado

\* C2: a successful load on a populated graph, with no limpiar in between,
\* leaves exactly the state a fresh graph has after loading the same edges.
C2_RecargaReemplaza ==
    Recargado =>
        /\ numNodos = Recien(aristas).numNodos
        /\ numAristas = Recien(aristas).numAristas
        /\ row_ptr = Recien(aristas).row_ptr
        /\ col_indices = Recien(aristas).col_indices
        /\ gradoEntrada = Recien(aristas).gradoEntrada

\* C14: from any state limpiar() leaves the empty state of a freshly
\* constructed graph (numNodos = 0, numAristas = 0, no row_ptr, col_indices
\* or gradoEntrada entries), and a successful cargarDatos called right after
\* limpiar leaves the state a fresh graph has after loading the same edges.
C14_LimpiarReinicia ==
    [][/\ ret'.op = "limpiar" =>
             /\ ~caido'
             /\ grafo' = <<0, 0, 0, <<>>, <<>>, <<>>>>
       /\ (ret.op = "limpiar" /\ ret'.op = "cargarDatos" /\ ret'.val) =>
             /\ ~caido'
             /\ grafo' = <<Recien(aristas').numNodos, Recien(aristas').numAristas,
                           Recien(aristas').maxNodoId, Recien(aristas').row_ptr,
                           Recien(aristas').col_indices,
                           Recien(aristas').gradoEntrada>>]_vars

\* limpiar has just cleared a populated graph
C14_Testigo ==
    /\ ret.op = "limpiar" /\ ret.antes > 0
    /\ numNodos = 0 /\ row_ptr = <<>> /\ gradoEntrada = <<>>

\* C15: cargarDatos returns false exactly when the file cannot be opened or
\* holds no valid edge line, and true otherwise; when it returns true the
\* graph is the one built from exactly the parsed edges, whatever the state
\* of the graph before the call.
C15_CargaExacta ==
    ret.op = "cargarDatos" =>
        /\ ret.val = ~(~ret.abre \/ ret.leidas = <<>>)
        /\ ret.val =>
              /\ ~caido
              /\ grafo = <<Recien(ret.leidas).numNodos, Recien(ret.leidas).numAristas,
                           Recien(ret.leidas).maxNodoId, Recien(ret.leidas).row_ptr,
                           Recien(ret.leidas).col_indices,
                           Recien(ret.leidas).gradoEntrada>>

\* C23: a cargarDatos call that returns false (the file cannot be opened, or
\* it gives no valid edge) leaves numNodos, numAristas, row_ptr, col_indices
\* and gradoEntrada as they were: a loaded graph keeps its answers and an
\* empty graph stays empty.
C23_CargaFallidaNoCambia ==
    [][(ret'.op = "cargarDatos" /\ ~ret'.val) =>
          /\ numNodos' = numNodos
          /\ numAristas' = numAristas
          /\ row_ptr' = row_ptr
          /\ col_indices' = col_indices
          /\ gradoEntrada' = gradoEntrada
          /\ maxNodoId' = maxNodoId
          /\ caido' = caido]_vars

\* a file without edges was given to a loaded graph
C23_Testigo ==
    /\ ret.op = "cargarDatos" /\ ~ret.val /\ ret.abre
    /\ ~caido /\ numNodos > 0 /\ numAristas > 0

(* ======================= properties of a built graph =================== *)
\* the graph was built by a load on an empty (new or cleared) structure
Construido == ~caido /\ numNodos > 0 /\ cargas = 1

\* number of positions of the sequence s that satisfy P
Cuenta(s, P(_)) == Cardinality({k \in DOMAIN s : P(s[k])})

\* the edges of the loaded list, as a set of pairs
ConjAristas == {aristas[k] : k \in DOMAIN aristas}

\* s is ascending (repeats allowed)
Ascendente(s) == \A k \in 1..(Len(s) - 1) : s[k] <= s[k + 1]

\* C3: after a build from L, existeArista(u, v) is true for every pair that
\* occurs in L (self-loops and parallel edges included) and false for every
\* other pair of ids, pairs with an endpoint >= numNodos included.
C3_ExisteAristaExacta ==
    (Construido /\ ret.op = "existeArista") =>
        (ret.val <=> (<<ret.origen, ret.destino>> \in ConjAristas))

C3_Testigo ==
    /\ Construido /\ ret.op = "existeArista" /\ ret.val
    /\ ret.origen = ret.destino
    /\ Cuenta(aristas, LAMBDA e : e = <<ret.origen, ret.destino>>) >= 2

\* C4: after a build from L, getVecinos(i) of every node i < numNodos is
\* ascending, has getGradoSalida(i) elements and holds, as a multiset, the
\* destinations of the edges of L that leave i (parallel edges repeated).
C4_VecinosOrdenadosCompletos ==
    (Construido /\ ret.op = "getVecinos" /\ ret.nodo < numNodos) =>
        /\ Ascendente(ret.val)
        /\ Len(ret.val) = getGradoSalida(ret.nodo)
        /\ \A v \in 0..MaxNodoId :
              Cuenta(ret.val, LAMBDA x : x = v)
                  = Cuenta(aristas, LAMBDA e : e = <<ret.nodo, v>>)
        /\ \A k \in DOMAIN ret.val : ret.val[k] \in 0..MaxNodoId

C4_Testigo ==
    /\ Construido /\ ret.op = "getVecinos"
    /\ Len(ret.val) = 3 /\ ret.val[1] = ret.val[2] /\ ret.val[2] < ret.val[3]
    /\ aristas[1][2] > aristas[2][2]

\* C5: after a build from L, getGradoSalida(n) is the number of edges of L
\* with origin n and getGradoEntrada(n) the number with destination n, for
\* every n < numNodos (a self-loop counts once in each).
C5_GradosCuentanAristas ==
    /\ (Construido /\ ret.op = "getGradoSalida" /\ ret.nodo < numNodos) =>
          ret.val = Cuenta(aristas, LAMBDA e : e[1] = ret.nodo)
    /\ (Construido /\ ret.op = "getGradoEntrada" /\ ret.nodo < numNodos) =>
          ret.val = Cuenta(aristas, LAMBDA e : e[2] = ret.nodo)

C5_Testigo ==
    /\ Construido /\ ret.op = "getGradoEntrada" /\ ret.val = 2
    /\ <<ret.nodo, ret.nodo>> \in ConjAristas
    /\ getGradoSalida(ret.nodo) = 1

\* C6: after a build from a non-empty L, numNodos is the largest id of L plus
\* one and numAristas is the length of L; an id below numNodos that is in no
\* edge has out-degree 0, in-degree 0 and no neighbours.
IdsUsados == {e[1] : e \in ConjAristas} \cup {e[2] : e \in ConjAristas}

C6_NodosDensos ==
    Construido =>
        /\ numNodos - 1 \in IdsUsados
        /\ \A x \in IdsUsados : x <= numNodos - 1
        /\ numAristas = Len(aristas)
        /\ (/\ ret.op \in {"getGradoSalida", "getGradoEntrada", "getVecinos"}
            /\ ret.nodo < numNodos
            /\ ret.nodo \notin IdsUsados)
              => ret.val = (IF ret.op = "getVecinos" THEN <<>> ELSE 0)

C6_Testigo ==
    /\ Construido /\ ret.op = "getVecinos" /\ ret.nodo = 1
    /\ IdsUsados = {0, 2} /\ numNodos = 3 /\ numAristas = 3 /\ ret.val = <<>>

\* shortest-hop distances over the loaded edge list, by layers: dist maps the
\* nodes found so far to their distance, frontera is the layer at distance d
RECURSIVE DistRec(_, _, _)
DistRec(dist, frontera, d) ==
    IF frontera = {} THEN dist
    ELSE LET sig == {e[2] : e \in {x \in ConjAristas : x[1] \in frontera}} \ DOMAIN dist
         IN  DistRec(dist @@ [n \in sig |-> d + 1], sig, d + 1)

\* node |-> number of edges of a shortest path from s, for the nodes that
\* can be reached from s
Distancia(s) == DistRec([n \in {s} |-> 0], {s}, 0)

\* C7: on a built graph, for start < numNodos, BFS(start, -1) holds every
\* node reachable from start exactly once and no other node, each with its
\* shortest-hop distance from start as depth.
C7_BFSAlcanzaConDistancia ==
    (Construido /\ ret.op = "BFS" /\ ret.profundidadMax = -1 /\ ret.inicio < numNodos) =>
        LET dist == Distancia(ret.inicio)
        IN  /\ {ret.val[k][1] : k \in DOMAIN ret.val} = DOMAIN dist
            /\ Len(ret.val) = Cardinality(DOMAIN dist)
            /\ \A k \in DOMAIN ret.val : ret.val[k][2] = dist[ret.val[k][1]]

\* a node at depth 1 that also has a two-edge path from the start
C7_Testigo ==
    /\ Construido /\ ret.op = "BFS" /\ ret.profundidadMax = -1
    /\ Len(ret.val) = 3 /\ ret.val[2][2] = 1 /\ ret.val[3][2] = 1
    /\ <<ret.val[2][1], ret.val[3][1]>> \in ConjAristas

\* the depth BFS(origen, -1) records for nodo
ProfundidadBFS(origen, nodo) ==
    LET b == BFS(origen, -1)
    IN  b[CHOOSE k \in DOMAIN b : b[k][1] = nodo][2]

\* C8: on a built graph, for in-range origin # destination with destination
\* reachable, caminoMasCorto returns a sequence from origin to destination
\* whose consecutive nodes are joined by edges and whose number of edges is
\* the depth BFS(origin, -1) records for destination.
C8_CaminoEsMasCorto ==
    (/\ Construido /\ ret.op = "caminoMasCorto"
     /\ ret.origen < numNodos /\ ret.destino < numNodos
     /\ ret.origen # ret.destino
     /\ ret.destino \in DOMAIN Distancia(ret.origen)) =>
        /\ Len(ret.val) >= 2
        /\ ret.val[1] = ret.origen
        /\ ret.val[Len(ret.val)] = ret.destino
        /\ \A k \in 1..(Len(ret.val) - 1) : <<ret.val[k], ret.val[k + 1]>> \in ConjAristas
        /\ Len(ret.val) - 1 = ProfundidadBFS(ret.origen, ret.destino)

\* a direct edge is taken although a two-edge path exists as well
C8_Testigo ==
    /\ Construido /\ ret.op = "caminoMasCorto" /\ Len(ret.val) = 2
    /\ \E m \in 0..MaxNodoId :
          /\ m \notin {ret.origen, ret.destino}
          /\ <<ret.origen, m>> \in ConjAristas
          /\ <<m, ret.destino>> \in ConjAristas

\* C9: caminoMasCorto returns the empty sequence exactly when an endpoint is
\* >= numNodos or destination cannot be reached from origin; for an in-range
\* node o, caminoMasCorto(o, o) is [o], with or without a self-loop or an
\* outgoing edge.
C9_CaminoVacioExacto ==
    (Construido /\ ret.op = "caminoMasCorto") =>
        /\ (ret.val = <<>>) <=>
              (\/ ret.origen >= numNodos
               \/ ret.destino >= numNodos
               \/ ret.destino \notin DOMAIN Distancia(ret.origen))
        /\ (ret.origen = ret.destino /\ ret.origen < numNodos) => ret.val = <<ret.origen>>

\* both endpoints in range, the search runs and ends without the destination
C9_Testigo ==
    /\ Construido /\ ret.op = "caminoMasCorto" /\ ret.val = <<>>
    /\ ret.origen < numNodos /\ ret.destino < numNodos
    /\ getGradoSalida(ret.origen) > 0

\* the nodes that are the origin of at least one loaded edge
Origenes == {e[1] : e \in ConjAristas}

\* C10: on a built graph, getTopKNodos(k) returns min(k, number of nodes with
\* out-degree > 0) pairs (node, degree) with distinct nodes, each degree the
\* node's getGradoSalida and > 0, in non-increasing degree order, and no
\* node left out has a larger out-degree than the smallest one returned.
C10_TopKOrdenadoRecortado ==
    (Construido /\ ret.op = "getTopKNodos") =>
        LET r == ret.val
            dentro == {r[i][1] : i \in DOMAIN r}
        IN  /\ Len(r) = (IF ret.k < Cardinality(Origenes) THEN ret.k ELSE Cardinality(Origenes))
            /\ Cardinality(dentro) = Len(r)
            /\ \A i \in DOMAIN r :
                  /\ r[i][1] < numNodos
                  /\ r[i][2] = getGradoSalida(r[i][1])
                  /\ r[i][2] > 0
            /\ \A i \in 1..(Len(r) - 1) : r[i][2] >= r[i + 1][2]
            /\ \A n \in (0..(numNodos - 1)) \ dentro :
                  \A i \in DOMAIN r : getGradoSalida(n) <= r[i][2]

\* k cuts the list, the degrees differ and a node with edges is left out
C10_Testigo ==
    /\ Construido /\ ret.op = "getTopKNodos" /\ ret.k = 1
    /\ Cardinality(Origenes) = 2
    /\ ret.val[1][2] = 2
    /\ \E n \in Origenes : getGradoSalida(n) = 1

(* ============================ degree analytics ========================= *)
\* number of loaded edges that leave node n
SalenDe(n) == Cuenta(aristas, LAMBDA e : e[1] = n)

\* C11: getNodoMayorGrado() returns (n, d) with d the largest out-degree of
\* all nodes and n the lowest id that has out-degree d; on an empty graph
\* (never loaded, or after limpiar) it returns (0, 0).
C11_MayorGradoMenorId ==
    (~caido /\ ret.op = "getNodoMayorGrado") =>
        /\ numNodos = 0 => ret.val = <<0, 0>>
        /\ Construido =>
              /\ ret.val[1] < numNodos
              /\ ret.val[2] = SalenDe(ret.val[1])
              /\ \A n \in 0..(numNodos - 1) : SalenDe(n) <= ret.val[2]
              /\ \A n \in 0..(ret.val[1] - 1) : SalenDe(n) < ret.val[2]

\* two nodes share the largest degree and node 0 has none
C11_Testigo ==
    /\ Construido /\ ret.op = "getNodoMayorGrado" /\ ret.val = <<1, 1>>
    /\ SalenDe(2) = 1 /\ SalenDe(0) = 0

(* ============================== subgraphs ============================== *)
\* n copies of the edge e
RECURSIVE Copias(_, _)
Copias(e, n) == IF n = 0 THEN <<>> ELSE <<e>> \o Copias(e, n - 1)

\* the loaded edges u -> v with v from desde on and v in the set T, ascending
\* in v, each as many times as it was loaded
RECURSIVE AristasHacia(_, _, _)
AristasHacia(u, desde, T) ==
    IF desde >= numNodos THEN <<>>
    ELSE (IF desde \in T
          THEN Copias(<<u, desde>>, Cuenta(aristas, LAMBDA e : e = <<u, desde>>))
          ELSE <<>>) \o AristasHacia(u, desde + 1, T)

\* the edges of the subgraph induced by the list s, one block per element
RECURSIVE AristasInducidas(_, _, _)
AristasInducidas(s, j, T) ==
    IF j > Len(s) THEN <<>>
    ELSE (IF s[j] < numNodos THEN AristasHacia(s[j], 0, T) ELSE <<>>)
         \o AristasInducidas(s, j + 1, T)

\* C12: getAristasSubgrafo(S), for a list S in any order, with repeats and
\* ids that are not nodes, holds only edges (u, v) with u and v both in S;
\* each such edge appears once per occurrence of u in S and per time it was
\* loaded, the blocks in the order of S and ascending in v inside a block;
\* ids that are not nodes contribute nothing.
C12_SubgrafoInducido ==
    (Construido /\ ret.op = "getAristasSubgrafo") =>
        ret.val = AristasInducidas(ret.nodos, 1,
                                   {ret.nodos[j] : j \in DOMAIN ret.nodos})

\* S names a node twice and that node has a parallel self-loop: four entries
C12_Testigo ==
    /\ Construido /\ ret.op = "getAristasSubgrafo"
    /\ ret.nodos = <<1, 1>> /\ aristas = <<<<1, 1>>, <<1, 1>>>>
    /\ Len(ret.val) = 4

(* ========================= ids that are not nodes ====================== *)
\* C13: in every reachable state of a graph object (new, built, rebuilt by a
\* further load, cleared) a query with an id >= numNodos does not fail:
\* getGradoSalida and getGradoEntrada return 0, getVecinos an empty list,
\* existeArista false, BFS and DFS an empty list, and getTopKNodos with k
\* above the node count a list of at most numNodos entries, all of nodes.
C13_FueraDeRangoSeguro ==
    /\ ret.op \in {"getGradoSalida", "getGradoEntrada"} /\ ret.nodo >= numNodos
          => ~caido /\ ret.val = 0
    /\ ret.op = "getVecinos" /\ ret.nodo >= numNodos
          => ~caido /\ ret.val = <<>>
    /\ ret.op = "existeArista" /\ (ret.origen >= numNodos \/ ret.destino >= numNodos)
          => ~caido /\ ret.val = FALSE
    /\ ret.op \in {"BFS", "DFS"} /\ ret.inicio >= numNodos
          => ~caido /\ ret.val = <<>>
    /\ ret.op = "getTopKNodos" /\ ret.k > numNodos
          => /\ ~caido
             /\ Len(ret.val) <= numNodos
             /\ \A j \in DOMAIN ret.val : ret.val[j][1] < numNodos

\* the in-degree of an id that is not a node, asked of a graph loaded twice
C13_Testigo ==
    /\ cargas = 2 /\ numNodos > 0
    /\ ret.op = "getGradoEntrada" /\ ret.nodo = numNodos

(* ========================= the documented example ====================== *)
\* C16: a new graph that loads 0->1, 0->2, 1->2, 2->0 in that order has
\* numNodos = 3, numAristas = 4, row_ptr = [0,2,3,4], col_indices = [1,2,2,0];
\* the out-degrees of 0, 1, 2 are 2, 1, 1 and the in-degrees 1, 1, 2;
\* existeArista(2,0) is true and existeArista(1,0) false;
\* BFS(0,-1) = [(0,0),(1,1),(2,1)]; caminoMasCorto(0,2) = [0,2];
\* getTopKNodos(1) = [(0,2)]; getNodoMayorGrado() = (0,2).
C16_EjemploDocumentado ==
    /\ ~caido
    /\ numNodos = 3 /\ numAristas = 4
    /\ row_ptr = <<0, 2, 3, 4>>
    /\ col_indices = <<1, 2, 2, 0>>
    /\ ret.op = "getGradoSalida" /\ ret.nodo < 3 => ret.val = <<2, 1, 1>>[ret.nodo + 1]
    /\ ret.op = "getGradoEntrada" /\ ret.nodo < 3 => ret.val = <<1, 1, 2>>[ret.nodo + 1]
    /\ ret.op = "existeArista" /\ ret.origen = 2 /\ ret.destino = 0 => ret.val = TRUE
    /\ ret.op = "existeArista" /\ ret.origen = 1 /\ ret.destino = 0 => ret.val = FALSE
    /\ ret.op = "BFS" /\ ret.inicio = 0 /\ ret.profundidadMax = -1
          => ret.val = <<(<<0, 0>>), <<1, 1>>, <<2, 1>>>>
    /\ ret.op = "caminoMasCorto" /\ ret.origen = 0 /\ ret.destino = 2
          => ret.val = <<0, 2>>
    /\ ret.op = "getTopKNodos" /\ ret.k = 1 => ret.val = <<(<<0, 2>>)>>
    /\ ret.op = "getNodoMayorGrado" => ret.val = <<0, 2>>

\* the breadth-first traversal of the example from node 0 has been made
C16_Testigo ==
    /\ aristas = Ejemplo /\ row_ptr = <<0, 2, 3, 4>>
    /\ ret.op = "BFS" /\ ret.inicio = 0 /\ ret.profundidadMax = -1
    /\ Len(ret.val) = 3

(* ============================== traversals ============================= *)
\* the targets v >= desde of the loaded edges u -> v that are not in vistos,
\* ascending
RECURSIVE HijosNuevos(_, _, _)
HijosNuevos(u, desde, vistos) ==
    IF desde >= numNodos THEN <<>>
    ELSE (IF <<u, desde>> \in ConjAristas /\ desde \notin vistos
          THEN <<desde>> ELSE <<>>) \o HijosNuevos(u, desde + 1, vistos)

\* the elements of a sequence
Elementos(s) == {s[k] : k \in DOMAIN s}

\* the layer that follows nivel: the new targets of nivel[j], nivel[j+1], ...
RECURSIVE NivelSiguiente(_, _, _)
NivelSiguiente(nivel, j, vistos) ==
    IF j > Len(nivel) THEN <<>>
    ELSE LET h == HijosNuevos(nivel[j], 0, vistos)
         IN  h \o NivelSiguiente(nivel, j + 1, vistos \cup Elementos(h))

\* the layers from depth d to depth maxd, one after the other
RECURSIVE PorNiveles(_, _, _, _)
PorNiveles(nivel, d, vistos, maxd) ==
    IF nivel = <<>> THEN <<>>
    ELSE [k \in 1..Len(nivel) |-> <<nivel[k], d>>] \o
         (IF d >= maxd THEN <<>>
          ELSE LET sig == NivelSiguiente(nivel, 1, vistos)
               IN  PorNiveles(sig, d + 1, vistos \cup Elementos(sig), maxd))

\* C17: on a built graph, for start < numNodos and maxDepth >= 0,
\* BFS(start, maxDepth) holds exactly the nodes at shortest-hop distance
\* <= maxDepth from start, each once with that distance as depth; it begins
\* with (start, 0), its depths never decrease, a node at depth maxDepth is
\* not expanded and the neighbours of a node are enqueued in ascending id
\* order (the result is the layers 0..maxDepth in that order); BFS(start, 0)
\* is [(start, 0)].
C17_BFSLimitado ==
    (Construido /\ ret.op = "BFS" /\ ret.profundidadMax >= 0 /\ ret.inicio < numNodos) =>
        LET dist == Distancia(ret.inicio)
            dentro == {n \in DOMAIN dist : dist[n] <= ret.profundidadMax}
        IN  /\ {ret.val[k][1] : k \in DOMAIN ret.val} = dentro
            /\ Len(ret.val) = Cardinality(dentro)
            /\ \A k \in DOMAIN ret.val : ret.val[k][2] = dist[ret.val[k][1]]
            /\ ret.val[1] = <<ret.inicio, 0>>
            /\ \A k \in 1..(Len(ret.val) - 1) : ret.val[k][2] <= ret.val[k + 1][2]
            /\ ret.val = PorNiveles(<<ret.inicio>>, 0, {ret.inicio}, ret.profundidadMax)
            /\ ret.profundidadMax = 0 => ret.val = <<(<<ret.inicio, 0>>)>>

\* a node two edges away is left out by maxDepth = 1
C17_Testigo ==
    /\ Construido /\ ret.op = "BFS" /\ ret.profundidadMax = 1
    /\ ret.inicio < numNodos
    /\ Len(ret.val) = 2
    /\ \E n \in DOMAIN Distancia(ret.inicio) : Distancia(ret.inicio)[n] = 2

\* recursive pre-order search: Preorden(u, acc) visits u after the nodes of
\* acc and then, for each v >= desde in ascending order, the targets of
\* u -> v that are still unvisited when their turn comes
RECURSIVE PreordenVecinos(_, _, _)
RECURSIVE Preorden(_, _)
PreordenVecinos(u, desde, acc) ==
    IF desde >= numNodos THEN acc
    ELSE PreordenVecinos(u, desde + 1,
                         IF <<u, desde>> \in ConjAristas /\ desde \notin Elementos(acc)
                         THEN Preorden(desde, acc) ELSE acc)

Preorden(u, acc) == PreordenVecinos(u, 0, Append(acc, u))

\* C18: on a built graph, for start < numNodos, DFS(start, -1) holds each
\* node reachable from start exactly once, begins with start, and is in the
\* order of a recursive pre-order depth-first search that explores the
\* unvisited neighbours of each node in ascending id order.
C18_DFSPreorden ==
    (Construido /\ ret.op = "DFS" /\ ret.profundidadMax = -1 /\ ret.inicio < numNodos) =>
        /\ ret.val[1] = ret.inicio
        /\ Elementos(ret.val) = DOMAIN Distancia(ret.inicio)
        /\ Len(ret.val) = Cardinality(Elementos(ret.val))
        /\ ret.val = Preorden(ret.inicio, <<>>)

\* node 2 is pushed by node 0 and again by node 1 before it is first popped
C18_Testigo ==
    /\ Construido /\ ret.op = "DFS" /\ ret.profundidadMax = -1
    /\ ret.val = <<0, 1, 2>>
    /\ {<<0, 1>>, <<0, 2>>, <<1, 2>>} \subseteq ConjAristas

EnCurso == ret.op \in {"BFS", "DFS", "caminoMasCorto"}

\* the call has returned; for DFS the stack is empty
Terminado == EnCurso /\ ret.pc = "fin" /\ (ret.op = "DFS" => ret.pila = <<>>)

\* C19: BFS, DFS and caminoMasCorto terminate on every built graph (cycles,
\* self-loops and parallel edges included) for every start, origin,
\* destination and maxDepth; the BFS queue receives each node at most once;
\* the DFS stack receives at most one entry per edge plus the start entry
\* and ends empty.  The value returned is the one of the call taken as a
\* whole.
C19_RecorridosTerminan ==
    /\ [](ret.op = "BFS" /\ Construido =>
             Cardinality(Elementos(ret.encolados)) = Len(ret.encolados))
    /\ [](ret.op = "DFS" /\ Construido => ret.empujados <= numAristas + 1)
    /\ [](Terminado /\ Construido =>
             ret.val = CASE ret.op = "BFS" -> BFS(ret.inicio, ret.profundidadMax)
                         [] ret.op = "DFS" -> DFS(ret.inicio, ret.profundidadMax)
                         [] OTHER -> caminoMasCorto(ret.origen, ret.destino))
    /\ (EnCurso /\ Construido) ~> Terminado

\* a depth-first search of a graph with a parallel edge has ended after
\* pushing three entries for two nodes
C19_Testigo ==
    /\ Construido /\ Terminado /\ ret.op = "DFS"
    /\ ret.empujados = 3 /\ numAristas = 2 /\ Len(ret.val) = 2

(* =============================== sampling ============================== *)
\* muestreoAleatorio has returned
MuestreoHecho == ret.op = "muestreoAleatorio" /\ ret.pc = "fin"

\* C20: muestreoAleatorio(count) returns the ids 0..numNodos-1 in ascending
\* order when count >= numNodos (the empty list on an empty graph);
\* otherwise, under fair random draws, its rejection loop ends and it
\* returns exactly count distinct ids, all below numNodos, in strictly
\* ascending order.
C20_MuestreoTermina ==
    /\ [](MuestreoHecho =>
            IF ret.cantidad >= numNodos
            THEN ret.val = [k \in 1..numNodos |-> k - 1]
            ELSE /\ Len(ret.val) = ret.cantidad
                 /\ \A k \in DOMAIN ret.val : ret.val[k] \in 0..(numNodos - 1)
                 /\ \A k \in 1..(Len(ret.val) - 1) : ret.val[k] < ret.val[k + 1])
    /\ (ret.op = "muestreoAleatorio") ~> MuestreoHecho

\* two of three ids have been sampled
C20_Testigo ==
    /\ MuestreoHecho /\ numNodos = 3 /\ ret.cantidad = 2
    /\ ret.val = <<0, 2>>

(* ============================ reading the file ========================= *)
\* the line consists of exactly two integers
DosEnteros(linea) == Len(linea) = 2 /\ linea[1] >= 0 /\ linea[2] >= 0

\* the lines of s that consist of exactly two integers, as edges, in order
RECURSIVE AristasDeDosEnteros(_)
AristasDeDosEnteros(s) ==
    IF s = <<>> THEN <<>>
    ELSE (IF DosEnteros(Head(s)) THEN <<(<<Head(s)[1], Head(s)[2]>>)>> ELSE <<>>)
         \o AristasDeDosEnteros(Tail(s))

\* C21: during cargarDatos blank lines, lines that begin with '#' and every
\* line that is not exactly two integers are skipped and counted as ignored,
\* and the load goes on; only lines of exactly two integers give an edge.
C21_SoloDosEnteros ==
    (ret.op = "cargarDatos" /\ ret.pc = "fin" /\ ret.abre) =>
        /\ ret.leidas = Len(ret.lineas)
        /\ ret.vector = AristasDeDosEnteros(ret.lineas)
        /\ ret.lineasIgnoradas = Cuenta(ret.lineas, LAMBDA l : ~DosEnteros(l))

====
